---------------------------- MODULE Spec2Model ----------------------------
(* Model of viridian_workflow/primers.py: Amplicon.add, AmpliconSet        *)
(* construction, AmpliconSet.match and the read tag helpers                *)
(* set_tags / get_tags.                                                    *)
(*                                                                         *)
(* Python values are written as follows.  None (and an attribute that was  *)
(* never assigned) is the empty tuple <<>>, a present scalar v is <<v>>,   *)
(* a tuple (a, b) is <<a, b>>.  A string is the sequence of its            *)
(* characters, each a one-character TLA+ string.  A dict is a function.    *)
EXTENDS Integers, Sequences, FiniteSets, TLC

VARIABLES
    amplicon,       \* the Amplicon object that add() is folding primers into
    amplicon_sets,  \* the AmpliconSet objects constructed so far (a list)
    kwargs,         \* kwargs[i]: the arguments amplicon_sets[i] was built with
    matches,        \* the caller's matches dict once set_tags was called
    read,           \* the read's tag storage: a list of (key, value, type)
    ret             \* the last call: operation, arguments, outcome

vars == <<amplicon, amplicon_sets, kwargs, matches, read, ret>>

-----------------------------------------------------------------------------
(* Bounds of the model. *)

MaxPos == 2        \* add() is given primer positions 0 .. MaxPos
MaxSchemePos == 1  \* a scheme's primer positions are 0 .. MaxSchemePos
MaxSeqLen == 2     \* primer sequences have 1 .. MaxSeqLen bases
MaxAdds == 3       \* add() calls on one Amplicon
MaxAmplicons == 4  \* amplicons in one scheme
MaxTolerance == 1  \* tolerance argument is 0 .. MaxTolerance
MaxSets == 2       \* AmpliconSets passed to one set_tags call
MaxMatches == 2    \* amplicons in one match list handed to set_tags

-----------------------------------------------------------------------------
(* Python values. *)

None == <<>>
Some(v) == <<v>>
Val(o) == o[1]

Min2(a, b) == IF a < b THEN a ELSE b
Max2(a, b) == IF a > b THEN a ELSE b

SetMin(S) == CHOOSE x \in S : \A y \in S : x <= y
SetMax(S) == CHOOSE x \in S : \A y \in S : x >= y

Range(s) == {s[i] : i \in 1..Len(s)}

\* All lists of length 0 .. n over S.
ListsUpTo(S, n) == UNION {[1..k -> S] : k \in 0..n}

\* All orders in which a set can be iterated.
Orderings(S) ==
    {s \in [1..Cardinality(S) -> S] : \A i, j \in 1..Cardinality(S) : s[i] = s[j] => i = j}

NoCall == [op |-> "none", raised |-> "", value |-> None, args |-> None]

-----------------------------------------------------------------------------
(* Primer and Amplicon. *)

Positions == 0..MaxPos

\* The primer sequences offered to add(): it reads only their length.
Seqs == UNION {[1..k -> {"A"}] : k \in 1..MaxSeqLen}

\* Primer = namedtuple("Primer", ["name", "seq", "left", "forward", "pos"]);
\* from_tsv sets forward = left.  The primer name is read by no code.
Primer(seq, left, pos) == [seq |-> seq, left |-> left, forward |-> left, pos |-> pos]

Primers == {Primer(s, l, p) : s \in Seqs, l \in BOOLEAN, p \in Positions}

\* Amplicon.__init__
Amplicon(name, shortname) ==
    [ shortname |-> shortname,
      name |-> name,
      start |-> None,
      end |-> None,
      left |-> <<>>,
      right |-> <<>>,
      left_primer_region |-> None,
      right_primer_region |-> None,
      max_length |-> 0 ]

\* add with the min() on start forgotten: start follows the last left primer.
add_start_overwritten(self, primer) ==
    LET primer_end == primer.pos + Len(primer.seq)
        ml == IF Len(primer.seq) > self.max_length THEN Len(primer.seq) ELSE self.max_length
    IN  IF primer.left
        THEN [self EXCEPT
                !.max_length = ml,
                !.left = Append(@, primer),
                !.left_primer_region =
                    IF @ = None THEN <<primer.pos, primer_end>>
                    ELSE <<Min2(primer.pos, @[1]), Max2(primer_end, @[2])>>,
                !.start = Some(primer.pos)]
        ELSE [self EXCEPT
                !.max_length = ml,
                !.right = Append(@, primer),
                !.right_primer_region =
                    IF @ = None THEN <<primer.pos, primer_end>>
                    ELSE <<Min2(primer.pos, @[1]), Max2(primer_end, @[2])>>,
                !.end = IF @ = None THEN Some(primer_end) ELSE Some(Max2(Val(@), primer_end))]

\* add with the max() on end forgotten: end follows the last right primer.
add_end_overwritten(self, primer) ==
    LET primer_end == primer.pos + Len(primer.seq)
        ml == IF Len(primer.seq) > self.max_length THEN Len(primer.seq) ELSE self.max_length
    IN  IF primer.left
        THEN [self EXCEPT
                !.max_length = ml,
                !.left = Append(@, primer),
                !.left_primer_region =
                    IF @ = None THEN <<primer.pos, primer_end>>
                    ELSE <<Min2(primer.pos, @[1]), Max2(primer_end, @[2])>>,
                !.start = IF @ = None THEN Some(primer.pos) ELSE Some(Min2(Val(@), primer.pos))]
        ELSE [self EXCEPT
                !.max_length = ml,
                !.right = Append(@, primer),
                !.right_primer_region =
                    IF @ = None THEN <<primer.pos, primer_end>>
                    ELSE <<Min2(primer.pos, @[1]), Max2(primer_end, @[2])>>,
                !.end = Some(primer_end)]

\* Amplicon.add
add(self, primer) ==
    LET primer_end == primer.pos + Len(primer.seq)
        ml == IF Len(primer.seq) > self.max_length THEN Len(primer.seq) ELSE self.max_length
    IN  IF primer.left
        THEN IF self.left_primer_region = None
             THEN [self EXCEPT
                     !.max_length = ml,
                     !.left = Append(@, primer),
                     !.left_primer_region = <<primer.pos, primer_end>>,
                     !.start = Some(primer.pos)]
             ELSE [self EXCEPT
                     !.max_length = ml,
                     !.left = Append(@, primer),
                     !.left_primer_region =
                         <<Min2(primer.pos, @[1]), Max2(primer_end, @[2])>>,
                     !.start = Some(Min2(Val(@), primer.pos))]
        ELSE IF self.right_primer_region = None
             THEN [self EXCEPT
                     !.max_length = ml,
                     !.right = Append(@, primer),
                     !.right_primer_region = <<primer.pos, primer_end>>,
                     !.end = Some(primer_end)]
             ELSE [self EXCEPT
                     !.max_length = ml,
                     !.right = Append(@, primer),
                     !.right_primer_region =
                         <<Min2(primer.pos, @[1]), Max2(primer_end, @[2])>>,
                     !.end = Some(Max2(Val(@), primer_end))]

-----------------------------------------------------------------------------
(* Specification SpecAmplicon: one Amplicon and a sequence of add() calls. *)

InitAmplicon ==
    /\ amplicon = Amplicon(<<"a">>, 0)
    /\ amplicon_sets = <<>>
    /\ kwargs = <<>>
    /\ matches = None
    /\ read = <<>>
    /\ ret = NoCall

AmpliconAdd ==
    \E primer \in Primers :
        /\ Len(amplicon.left) + Len(amplicon.right) < MaxAdds
        /\ amplicon' = add(amplicon, primer)
        /\ ret' = [op |-> "add", raised |-> "", value |-> None, args |-> primer]
        /\ UNCHANGED <<amplicon_sets, kwargs, matches, read>>

NextAmplicon == AmpliconAdd

SpecAmplicon == InitAmplicon /\ [][NextAmplicon]_vars

-----------------------------------------------------------------------------
(* Properties of Amplicon.add. *)

LeftPos == {amplicon.left[i].pos : i \in 1..Len(amplicon.left)}
LeftEnds == {amplicon.left[i].pos + Len(amplicon.left[i].seq) : i \in 1..Len(amplicon.left)}
RightPos == {amplicon.right[i].pos : i \in 1..Len(amplicon.right)}
RightEnds == {amplicon.right[i].pos + Len(amplicon.right[i].seq) : i \in 1..Len(amplicon.right)}

AddClosedForm ==
    /\ amplicon.start = (IF LeftPos = {} THEN None ELSE Some(SetMin(LeftPos)))
    /\ amplicon.end = (IF RightEnds = {} THEN None ELSE Some(SetMax(RightEnds)))
    /\ amplicon.left_primer_region =
          (IF LeftPos = {} THEN None ELSE <<SetMin(LeftPos), SetMax(LeftEnds)>>)
    /\ amplicon.right_primer_region =
          (IF RightPos = {} THEN None ELSE <<SetMin(RightPos), SetMax(RightEnds)>>)

RegionGrows(old, new) ==
    old # None => (new # None /\ new[1] <= old[1] /\ new[2] >= old[2])

AddMonotonic ==
    /\ RegionGrows(amplicon.left_primer_region, amplicon.left_primer_region')
    /\ RegionGrows(amplicon.right_primer_region, amplicon.right_primer_region')

\* C9: Amplicon.add is order-independent and monotonic.  After any sequence
\* of add() calls, start is the minimum position over the left primers added,
\* end the maximum footprint end over the right primers added, and each
\* side's region is (minimum position, maximum footprint end) over that
\* side's primers, whatever the order of the calls; and no add() raises a
\* region's lower bound or lowers its upper bound.
C9_AddOrderIndependentMonotonic == []AddClosedForm /\ [][AddMonotonic]_vars

\* Three primers on one side added with the extreme one in the middle of the
\* order, so that both the first-primer branch and the min/max branch ran.
C9_Witness ==
    /\ Len(amplicon.left) = 3
    /\ amplicon.left[2].pos < amplicon.left[1].pos
    /\ amplicon.left[3].pos > amplicon.left[2].pos
    /\ Len(amplicon.left[1].seq) > Len(amplicon.left[3].seq)

BothSides == amplicon.left # <<>> /\ amplicon.right # <<>>

\* C10 as stated: with at least one left and one right primer added,
\* start <= end.
C10_StartLeEnd == BothSides => Val(amplicon.start) <= Val(amplicon.end)

\* C10 as amended: with at least one left and one right primer added,
\* start <= end exactly when some left primer's position is at most some
\* right primer's footprint end; add() itself does not enforce it.
C10_StartLeEndIffOrdered ==
    BothSides =>
        (Val(amplicon.start) <= Val(amplicon.end)
            <=> \E l \in LeftPos, r \in RightEnds : l <= r)

C10_Witness ==
    /\ Len(amplicon.left) = 2
    /\ Len(amplicon.right) = 1
    /\ amplicon.left[1].pos < amplicon.left[2].pos
    /\ amplicon.left[2].pos > amplicon.right[1].pos + Len(amplicon.right[1].seq)
    /\ Val(amplicon.start) <= Val(amplicon.end)

-----------------------------------------------------------------------------
(* Characters: chr and ord over the 54 code points 65 .. 118.  Code point *)
(* 96, the grave accent, cannot be written in a string here and is spelled *)
(* out as "grave".                                                         *)

Alphabet ==
    << "A", "B", "C", "D", "E", "F", "G", "H", "I", "J", "K", "L", "M",
       "N", "O", "P", "Q", "R", "S", "T", "U", "V", "W", "X", "Y", "Z",
       "[", "\\", "]", "^", "_", "grave",
       "a", "b", "c", "d", "e", "f", "g", "h", "i", "j", "k", "l", "m",
       "n", "o", "p", "q", "r", "s", "t", "u", "v" >>

chr(n) == Alphabet[n - 64]
ord(c) == CHOOSE n \in 65..118 : Alphabet[n - 64] = c

RECURSIVE SumOrd(_)
SumOrd(name) == IF name = <<>> THEN 0 ELSE ord(Head(name)) + SumOrd(Tail(name))

\* chr(((sum(map(ord, name)) - ord("A")) % 54) + 65)
derived_shortname(name) == <<chr(((SumOrd(name) - ord("A")) % 54) + 65)>>

-----------------------------------------------------------------------------
(* IntervalTree: a set of intervals [begin, end) carrying data.  An object *)
(* reference to an Amplicon is written as the amplicon's name.              *)

\* tree[point]: the intervals with begin <= point < end.
TreeAt(tree, point) == {iv \in tree : iv.begin <= point /\ point < iv.end}

\* tree.envelop(begin, end): the intervals lying within [begin, end);
\* empty when begin >= end.
TreeEnvelop(tree, begin, end) ==
    IF begin >= end THEN {}
    ELSE {iv \in tree : iv.begin >= begin /\ iv.end <= end}

-----------------------------------------------------------------------------
(* AmpliconSet.  The amplicons dict is the list of its values in insertion *)
(* order; its keys are the amplicons' names.                                *)

\* The interval inserted for an amplicon, with the tolerance left out.
PaddedInterval_no_tolerance(a, tolerance) ==
    [begin |-> Val(a.start), end |-> Val(a.end), data |-> a.name]

\* start = amplicon.start - tolerance; end = amplicon.end + tolerance;
\* self.tree[start:end] = amplicon
PaddedInterval(a, tolerance) ==
    [begin |-> Val(a.start) - tolerance, end |-> Val(a.end) + tolerance, data |-> a.name]

PrimerLengths(amplicons) ==
    UNION {{Len(amplicons[i].left[j].seq) : j \in 1..Len(amplicons[i].left)}
             \cup {Len(amplicons[i].right[j].seq) : j \in 1..Len(amplicons[i].right)}
           : i \in 1..Len(amplicons)}

\* What the loop body raises for one amplicon: None - int is a TypeError,
\* an interval with begin >= end is refused by the tree with a ValueError.
AmpliconError(a, tolerance) ==
    IF a.start = None \/ a.end = None THEN "TypeError"
    ELSE IF Val(a.start) - tolerance >= Val(a.end) + tolerance THEN "ValueError"
    ELSE ""

\* The exception the loop over the amplicons ends with, "" when it
\* completes: that of the first amplicon it fails on.
LoopError(amplicons, tolerance) ==
    LET bad == {i \in 1..Len(amplicons) : AmpliconError(amplicons[i], tolerance) # ""}
    IN  IF bad # {} THEN AmpliconError(amplicons[SetMin(bad)], tolerance) ELSE ""

\* min() given a default for the empty collection.
min_with_default(primer_lengths) ==
    IF primer_lengths = {} THEN [raised |-> "", value |-> 0]
    ELSE [raised |-> "", value |-> SetMin(primer_lengths)]

\* min(primer_lengths): a ValueError on the empty collection.
min(primer_lengths) ==
    IF primer_lengths = {} THEN [raised |-> "ValueError", value |-> 0]
    ELSE [raised |-> "", value |-> SetMin(primer_lengths)]

\* The primers in the order the loop visits them, each with its amplicon.
RECURSIVE PrimerList(_, _)
PrimerList(amplicons, i) ==
    IF i > Len(amplicons) THEN <<>>
    ELSE [j \in 1..Len(amplicons[i].left) |->
              [seq |-> amplicons[i].left[j].seq, amplicon |-> amplicons[i].name]]
         \o [j \in 1..Len(amplicons[i].right) |->
              [seq |-> amplicons[i].right[j].seq, amplicon |-> amplicons[i].name]]
         \o PrimerList(amplicons, i + 1)

Prefix(seq, n) == SubSeq(seq, 1, Min2(n, Len(seq)))

\* sequences[primer.seq] = amplicon, then seqs[k[:min_primer_length]] = v
\* over sequences.items(): a dict keeps its keys in first-insertion order
\* and the last value assigned.
SeqTable(amplicons, min_primer_length) ==
    LET all == PrimerList(amplicons, 1)
        first(k) == SetMin({i \in 1..Len(all) : all[i].seq = k})
        last(k) == SetMax({i \in 1..Len(all) : all[i].seq = k})
        keys == {all[i].seq : i \in 1..Len(all)}
        winner(p) == CHOOSE k \in keys :
                        /\ Prefix(k, min_primer_length) = p
                        /\ \A k2 \in keys :
                              Prefix(k2, min_primer_length) = p => first(k2) <= first(k)
    IN  [p \in {Prefix(k, min_primer_length) : k \in keys} |-> all[last(winner(p))].amplicon]

\* self.amplicon_ids[amplicon.shortname] = amplicon, the last one winning.
IdTable(amplicons) ==
    [id \in {amplicons[i].shortname : i \in 1..Len(amplicons)} |->
        amplicons[SetMax({i \in 1..Len(amplicons) : amplicons[i].shortname = id})].name]

\* if not shortname: self.shortname = <hash of name>.  There is no other
\* assignment: given a shortname, the attribute stays unset (None here).
\* The shortname argument is None or Some(string).
ShortnameAttr(name, shortname) ==
    IF shortname = None \/ Val(shortname) = <<>>
    THEN Some(derived_shortname(name)) ELSE None

\* AmpliconSet.__init__: [raised, value], value the object when raised = "".
AmpliconSet(name, amplicons, tolerance, shortname) ==
    LET err == LoopError(amplicons, tolerance)
        min_primer_length == min(PrimerLengths(amplicons))
    IN  IF err # "" THEN [raised |-> err, value |-> None]
        ELSE IF min_primer_length.raised # ""
        THEN [raised |-> min_primer_length.raised, value |-> None]
        ELSE [raised |-> "",
              value |->
                [ shortname |-> ShortnameAttr(name, shortname),
                  tree |-> {PaddedInterval(amplicons[i], tolerance) : i \in 1..Len(amplicons)},
                  name |-> name,
                  seqs |-> SeqTable(amplicons, min_primer_length.value),
                  amplicons |-> amplicons,
                  amplicon_ids |-> IdTable(amplicons),
                  min_primer_length |-> min_primer_length.value ]]

IndexOf(amplicons, name) ==
    LET at == {i \in 1..Len(amplicons) : amplicons[i].name = name}
    IN  IF at = {} THEN 0 ELSE SetMin(at)

\* The row loop of from_tsv: a row is [Amplicon_name, primer]; an amplicon
\* is created at its first row with shortname n, the count so far.
RECURSIVE ParseRows(_, _, _)
ParseRows(rows, i, amplicons) ==
    IF i > Len(rows) THEN amplicons
    ELSE LET d == rows[i]
             known == IF IndexOf(amplicons, d.Amplicon_name) = 0
                      THEN Append(amplicons, Amplicon(d.Amplicon_name, Len(amplicons)))
                      ELSE amplicons
             at == IndexOf(known, d.Amplicon_name)
         IN  ParseRows(rows, i + 1, [known EXCEPT ![at] = add(@, d.primer)])

\* AmpliconSet.from_tsv after the header check: cls(name, amplicons, **kwargs)
from_tsv(rows, name, tolerance, shortname) ==
    AmpliconSet(name, ParseRows(rows, 1, <<>>), tolerance, shortname)

\* match with the two tests in the other order: the ambiguity error first.
match_ambiguity_first(self, start, end) ==
    LET hits == TreeAt(self.tree, start) \cap TreeAt(self.tree, end)
        enveloped == TreeEnvelop(self.tree, start, end)
    IN  IF Cardinality(hits) > 2 THEN {[raised |-> "Exception", value |-> None]}
        ELSE IF enveloped # {} \/ hits = {} THEN {[raised |-> "", value |-> None]}
        ELSE {[raised |-> "", value |-> order] : order \in Orderings({hit.data : hit \in hits})}

\* match raising only from four hits on.
match_more_than_three(self, start, end) ==
    LET hits == TreeAt(self.tree, start) \cap TreeAt(self.tree, end)
        enveloped == TreeEnvelop(self.tree, start, end)
    IN  IF enveloped # {} THEN {[raised |-> "", value |-> None]}
        ELSE IF Cardinality(hits) = 0 THEN {[raised |-> "", value |-> None]}
        ELSE IF Cardinality(hits) > 3 THEN {[raised |-> "Exception", value |-> None]}
        ELSE {[raised |-> "", value |-> order] : order \in Orderings({hit.data : hit \in hits})}

\* AmpliconSet.match: the outcomes [raised, value] the call can have.  The
\* value is None or the list of the hits' amplicons, in the iteration order
\* of a set, which is any order.
match(self, start, end) ==
    LET hits == TreeAt(self.tree, start) \cap TreeAt(self.tree, end)
        enveloped == TreeEnvelop(self.tree, start, end)
    IN  IF enveloped # {} THEN {[raised |-> "", value |-> None]}
        ELSE IF Cardinality(hits) = 0 THEN {[raised |-> "", value |-> None]}
        ELSE IF Cardinality(hits) > 2 THEN {[raised |-> "Exception", value |-> None]}
        ELSE {[raised |-> "", value |-> order] : order \in Orderings({hit.data : hit \in hits})}

-----------------------------------------------------------------------------
(* Specification SpecMatch: one scheme is parsed and built into an         *)
(* AmpliconSet, then one read span is classified.  match changes nothing,  *)
(* so one query per behaviour reaches every outcome.                       *)

Tolerances == 0..MaxTolerance

LeftSeq == <<"A">>
RightSeq == <<"C", "A">>

\* An amplicon of a scheme is one left primer at l and either no right
\* primer or one at r: shape number l * (MaxSchemePos + 2) + r, with
\* r = MaxSchemePos + 1 for none.
NShapes == (MaxSchemePos + 1) * (MaxSchemePos + 2)
ShapeLeft(n) == n \div (MaxSchemePos + 2)
ShapeRight(n) == n % (MaxSchemePos + 2)

\* Schemes list their amplicons along the reference: shape numbers do not
\* decrease.
RECURSIVE SchemesOf(_, _)
SchemesOf(k, lo) ==
    IF k = 0 THEN {<<>>}
    ELSE UNION {{<<n>> \o rest : rest \in SchemesOf(k - 1, n)} : n \in lo..(NShapes - 1)}

Schemes == UNION {SchemesOf(k, 0) : k \in 0..MaxAmplicons}

AmpliconName(k) == <<"amplicon", k>>

RECURSIVE SchemeRows(_, _)
SchemeRows(scheme, k) ==
    IF k > Len(scheme) THEN <<>>
    ELSE << [Amplicon_name |-> AmpliconName(k),
             primer |-> Primer(LeftSeq, TRUE, ShapeLeft(scheme[k]))] >>
         \o (IF ShapeRight(scheme[k]) > MaxSchemePos THEN <<>>
             ELSE << [Amplicon_name |-> AmpliconName(k),
                      primer |-> Primer(RightSeq, FALSE, ShapeRight(scheme[k]))] >>)
         \o SchemeRows(scheme, k + 1)

\* Read span endpoints: from one below every padded span to one above.
QueryPoints == (0 - MaxTolerance - 1)..(MaxSchemePos + Len(RightSeq) + MaxTolerance)

SchemeName == <<"A", "B">>

InitMatch == InitAmplicon

\* AmpliconSet.from_tsv(fn, name, tolerance=..., shortname=...)
Construct(rows, name, tolerance, shortname) ==
    LET r == from_tsv(rows, name, tolerance, shortname)
    IN  /\ amplicon_sets' = IF r.raised = "" THEN Append(amplicon_sets, r.value)
                            ELSE amplicon_sets
        /\ kwargs' = IF r.raised = ""
                     THEN Append(kwargs, [tolerance |-> tolerance, shortname |-> shortname])
                     ELSE kwargs
        /\ ret' = [op |-> "AmpliconSet", raised |-> r.raised, value |-> None,
                   args |-> [name |-> name, amplicons |-> ParseRows(rows, 1, <<>>),
                             tolerance |-> tolerance, shortname |-> shortname]]
        /\ UNCHANGED <<amplicon, matches, read>>

ConstructScheme ==
    /\ ret.op = "none"
    /\ \E scheme \in Schemes, tolerance \in Tolerances :
          Construct(SchemeRows(scheme, 1), SchemeName, tolerance, None)

MatchRead ==
    /\ ret.op = "AmpliconSet"
    /\ \E i \in 1..Len(amplicon_sets), start \in QueryPoints, end \in QueryPoints :
          \E out \in match(amplicon_sets[i], start, end) :
              ret' = [op |-> "match", raised |-> out.raised, value |-> out.value,
                      args |-> <<i, start, end>>]
    /\ UNCHANGED <<amplicon, amplicon_sets, kwargs, matches, read>>

NextMatch == ConstructScheme \/ MatchRead

SpecMatch == InitMatch /\ [][NextMatch]_vars

-----------------------------------------------------------------------------
(* Properties of AmpliconSet construction and match.  They are stated over *)
(* the amplicons and the tolerance the set was built from, not over the    *)
(* tree.                                                                   *)

Matched == ret.op = "match"
QSet == amplicon_sets[ret.args[1]]
QTolerance == kwargs[ret.args[1]].tolerance
QStart == ret.args[2]
QEnd == ret.args[3]

PaddedBegin(a, tolerance) == Val(a.start) - tolerance
PaddedEnd(a, tolerance) == Val(a.end) + tolerance
Covers(a, tolerance, p) == PaddedBegin(a, tolerance) <= p /\ p < PaddedEnd(a, tolerance)

\* The amplicons whose padded span contains both endpoints of the query.
Containing ==
    {a.name : a \in {x \in Range(QSet.amplicons) :
                        Covers(x, QTolerance, QStart) /\ Covers(x, QTolerance, QEnd)}}

\* The amplicons whose padded span lies within [start, end).
Enveloped ==
    {a.name : a \in {x \in Range(QSet.amplicons) :
                        QStart <= PaddedBegin(x, QTolerance) /\ PaddedEnd(x, QTolerance) <= QEnd}}

\* C1: for a read span start < end that envelops no padded span and whose
\* endpoints both lie in at most two padded spans, match returns exactly the
\* amplicons whose padded span contains both endpoints, each once and in any
\* order, and returns no match when there is none.
C1_MatchReturnsContaining ==
    (Matched /\ QStart < QEnd /\ Enveloped = {} /\ Cardinality(Containing) <= 2) =>
        /\ ret.raised = ""
        /\ Containing = {} => ret.value = None
        /\ Containing # {} =>
              /\ Range(ret.value) = Containing
              /\ Len(ret.value) = Cardinality(Containing)

\* A read across the overlap of two amplicons of a larger scheme, whose
\* start lies in a span that does not reach its end.
C1_Witness ==
    /\ Matched /\ QStart < QEnd /\ Enveloped = {}
    /\ Cardinality(Containing) = 2
    /\ Len(QSet.amplicons) >= 3
    /\ QTolerance > 0
    /\ \E a \in Range(QSet.amplicons) :
          Covers(a, QTolerance, QStart) /\ ~Covers(a, QTolerance, QEnd)
    /\ Len(ret.value) = 2

\* C2: whenever some padded span lies within the read span [start, end),
\* match returns no match, as a value and not as an error, however many
\* padded spans contain both endpoints.
C2_EnvelopedIsNoMatch ==
    (Matched /\ Enveloped # {}) => (ret.raised = "" /\ ret.value = None)

C2_Witness ==
    /\ Matched /\ Enveloped # {}
    /\ Cardinality(Containing) >= 3
    /\ ret.raised = "" /\ ret.value = None

\* Three or more padded spans contain both endpoints of the query.
ThreeCover == Cardinality(Containing) >= 3

\* C3 as stated: a query with both endpoints inside the common overlap of
\* three or more padded spans raises the ambiguity error.
C3_ThreeCoverRaises == (Matched /\ ThreeCover) => ret.raised = "Exception"

\* C3 as amended: a query with both endpoints inside the common overlap of
\* three or more padded spans raises the ambiguity error unless some
\* padded span lies within [start, end), in which case it returns no match;
\* it never returns three or more amplicons nor a list cut to two.
C3_ThreeCoverRaisesUnlessEnveloped ==
    (Matched /\ ThreeCover) =>
        IF Enveloped = {} THEN ret.raised = "Exception"
        ELSE ret.raised = "" /\ ret.value = None

C3_Witness ==
    /\ Matched /\ ThreeCover /\ Enveloped = {}
    /\ QStart < QEnd
    /\ ret.raised = "Exception"

\* Some point of the reference lies in more than two padded spans of set i.
Overcovered(i) ==
    \E p \in QueryPoints :
        Cardinality({k \in 1..Len(amplicon_sets[i].amplicons) :
                        Covers(amplicon_sets[i].amplicons[k], kwargs[i].tolerance, p)}) > 2

\* C4: construction fails when three or more padded spans share a point, so
\* no constructed AmpliconSet has such a point and no match on a constructed
\* set reaches the more-than-two-hits error.
C4_ConstructionRejectsOvercover ==
    /\ \A i \in 1..Len(amplicon_sets) : ~Overcovered(i)
    /\ Matched => ret.raised # "Exception"

\* C5: constructing an AmpliconSet from an empty amplicon collection raises,
\* and no AmpliconSet with an empty interval index exists.
C5_EmptyCollectionRaises ==
    /\ (ret.op = "AmpliconSet" /\ ret.args.amplicons = <<>>) =>
          (ret.raised # "" /\ amplicon_sets = <<>>)
    /\ \A i \in 1..Len(amplicon_sets) : amplicon_sets[i].tree # {}

C5_Witness ==
    /\ ret.op = "AmpliconSet" /\ ret.args.amplicons = <<>>
    /\ ret.raised = "ValueError"
    /\ amplicon_sets = <<>>

-----------------------------------------------------------------------------
(* Tag propagation.  A read keeps a list of tags <<key, value, type>>; its *)
(* set_tags replaces the list and its get_tags yields the (key, value)     *)
(* pairs in order, as pysam.AlignedSegment does.                           *)

HasShortname(amplicon_set) == amplicon_set.shortname # None

\* The tags of one amplicon set: (f"Z{shortname}", amplicon.shortname, "i")
\* for each amplicon of matches[amplicon_set.name], none when the name is
\* not in matches.
TagsOf(amplicon_set, m) ==
    IF amplicon_set.name \notin DOMAIN m THEN <<>>
    ELSE [k \in 1..Len(m[amplicon_set.name]) |->
            << <<"Z">> \o Val(amplicon_set.shortname), m[amplicon_set.name][k].shortname, "i" >>]

RECURSIVE AllTags(_, _, _)
AllTags(sets, i, m) ==
    IF i > Len(sets) THEN <<>> ELSE TagsOf(sets[i], m) \o AllTags(sets, i + 1, m)

\* set_tags(amplicon_sets, read, matches): [raised, read].  Reading the
\* shortname attribute of a set that has none is an AttributeError.  On a
\* repeated shortname an Exception object is built and dropped: there is
\* no raise statement, and the loop goes on.
set_tags(sets, rd, m) ==
    IF \E i \in 1..Len(sets) : ~HasShortname(sets[i])
    THEN [raised |-> "AttributeError", read |-> rd]
    ELSE [raised |-> "", read |-> AllTags(sets, 1, m)]

Deref(amplicon_set, name) ==
    amplicon_set.amplicons[IndexOf(amplicon_set.amplicons, name)]

\* One turn of the loop of get_tags: "" when the tag is passed over,
\* "append" when it is resolved, else the exception.
TagStep(amplicon_set, tag) ==
    IF tag[1][1] # "Z" THEN ""
    ELSE IF ~HasShortname(amplicon_set) THEN "AttributeError"
    ELSE IF <<tag[1][2]>> # Val(amplicon_set.shortname) THEN ""
    ELSE IF tag[2] \notin DOMAIN amplicon_set.amplicon_ids THEN "KeyError"
    ELSE "append"

RECURSIVE Resolved(_, _, _)
Resolved(amplicon_set, rd, i) ==
    IF i > Len(rd) THEN <<>>
    ELSE (IF TagStep(amplicon_set, rd[i]) = "append"
          THEN <<Deref(amplicon_set, amplicon_set.amplicon_ids[rd[i][2]])>>
          ELSE <<>>)
         \o Resolved(amplicon_set, rd, i + 1)

\* get_tags(amplicon_set, read): [raised, value]
get_tags(amplicon_set, rd) ==
    LET failing == {i \in 1..Len(rd) :
                       TagStep(amplicon_set, rd[i]) \notin {"", "append"}}
    IN  IF failing # {}
        THEN [raised |-> TagStep(amplicon_set, rd[SetMin(failing)]), value |-> None]
        ELSE [raised |-> "", value |-> Resolved(amplicon_set, rd, 1)]

-----------------------------------------------------------------------------
(* Specification SpecTags: up to MaxSets schemes are built, with and       *)
(* without a shortname argument; set_tags is called on all of them for one *)
(* read, and get_tags reads the tags back.                                 *)

SetNames == {<<"A", "B">>, <<"B", "A">>, <<"C">>}
ShortnameArgs == {None, Some(<<"a">>), Some(<<"b">>)}

ShapeOf(l, r) == l * (MaxSchemePos + 2) + r
TagSchemes == {<<ShapeOf(0, 1)>>, <<ShapeOf(0, 0), ShapeOf(1, 1)>>}

\* Tags a read carries before this code touches it.
InitialReads == {<<>>, << << <<"N", "M">>, 1, "i" >> >>}

InitTags ==
    /\ amplicon = Amplicon(<<"a">>, 0)
    /\ amplicon_sets = <<>>
    /\ kwargs = <<>>
    /\ matches = None
    /\ read \in InitialReads
    /\ ret = NoCall

ConstructSet ==
    /\ Len(amplicon_sets) < MaxSets
    /\ ret.op \in {"none", "AmpliconSet"}
    /\ \E name \in SetNames, shortname \in ShortnameArgs, scheme \in TagSchemes :
          Construct(SchemeRows(scheme, 1), name, MaxTolerance, shortname)

\* The amplicons of the sets called name.
AmpliconsNamed(name) ==
    UNION {Range(amplicon_sets[i].amplicons) :
             i \in {j \in 1..Len(amplicon_sets) : amplicon_sets[j].name = name}}

\* The matches dicts: some of the sets' names, each with a list of
\* amplicons of a set of that name.
MatchDicts ==
    UNION {{m \in [D -> ListsUpTo(UNION {AmpliconsNamed(n) : n \in D}, MaxMatches)] :
               \A n \in D : Range(m[n]) \subseteq AmpliconsNamed(n)}
           : D \in SUBSET {amplicon_sets[i].name : i \in 1..Len(amplicon_sets)}}

SetTags ==
    /\ amplicon_sets # <<>>
    /\ ret.op = "AmpliconSet"
    /\ \E m \in MatchDicts :
          LET r == set_tags(amplicon_sets, read, m)
          IN  /\ read' = r.read
              /\ matches' = Some(m)
              /\ ret' = [op |-> "set_tags", raised |-> r.raised, value |-> None, args |-> m]
    /\ UNCHANGED <<amplicon, amplicon_sets, kwargs>>

GetTags ==
    /\ ret.op \in {"AmpliconSet", "set_tags"}
    /\ ret.raised = ""
    /\ \E i \in 1..Len(amplicon_sets) :
          LET r == get_tags(amplicon_sets[i], read)
          IN  ret' = [op |-> "get_tags", raised |-> r.raised, value |-> r.value, args |-> i]
    /\ UNCHANGED <<amplicon, amplicon_sets, kwargs, matches, read>>

NextTags == ConstructSet \/ SetTags \/ GetTags

SpecTags == InitTags /\ [][NextTags]_vars

-----------------------------------------------------------------------------
(* Properties of the tag helpers and of the shortname. *)

\* Two of the sets passed to set_tags carry the same shortname.
DuplicateShortname ==
    \E i, j \in 1..Len(amplicon_sets) :
        /\ i # j
        /\ HasShortname(amplicon_sets[i])
        /\ amplicon_sets[i].shortname = amplicon_sets[j].shortname

\* C6: set_tags fails with an error when two of the sets passed to it have
\* the same shortname, and writes no merged tags to the read.
C6_DuplicateShortnameRaises ==
    (ret.op = "set_tags" /\ DuplicateShortname) =>
        (ret.raised # "" /\ read \in InitialReads)

\* C7: set_tags([S], read, {S.name: M}) followed by get_tags(S, read)
\* returns exactly the amplicons of M.
C7_TagRoundTrip ==
    (/\ matches # None
     /\ Len(amplicon_sets) = 1
     /\ amplicon_sets[1].name \in DOMAIN Val(matches)) =>
        /\ ret.op = "set_tags" => ret.raised = ""
        /\ ret.op = "get_tags" =>
              (ret.raised = "" /\ ret.value = Val(matches)[amplicon_sets[1].name])

\* C8: every constructed AmpliconSet has a one-character shortname: the one
\* passed to the constructor when one was passed, else
\* chr(((sum of the character codes of name - 65) mod 54) + 65).
C8_ShortnameDefined ==
    \A i \in 1..Len(amplicon_sets) :
        /\ HasShortname(amplicon_sets[i])
        /\ Len(Val(amplicon_sets[i].shortname)) = 1
        /\ kwargs[i].shortname # None =>
              Val(amplicon_sets[i].shortname) = Val(kwargs[i].shortname)
        /\ kwargs[i].shortname = None =>
              Val(amplicon_sets[i].shortname) =
                  <<Alphabet[((SumOrd(amplicon_sets[i].name) - 65) % 54) + 1]>>

=============================================================================
